---- MODULE Spec2Model ----
(***************************************************************************)
(* The prediction lifecycle of mlb-predict: the prediction store           *)
(* (data/predictions.xlsx), the reconciliation pass                        *)
(* (load_unchecked_predictions_from_excel / update_row), the daily         *)
(* generation (generate_daily_predictions) and the process-wide running     *)
(* statistics of predict.py, together with the one-shot script              *)
(* make_predictions.py that works on the same store, and the long-lived     *)
(* process of main.py: its cron job (check_and_predict), the one-shot jobs  *)
(* of a day, switch_model and shutdown.                                     *)
(*                                                                         *)
(* Specifications.  Spec: the functions of predict.py called in any order.  *)
(* ScriptSpec: runs of make_predictions.py.  SchedSpec: the process of      *)
(* main.py, check_and_predict taken step by step.  WriterSpec: one day of   *)
(* that process next to runs of the script.  PctSpec: the percentage of     *)
(* the summary over a range of counters.                                    *)
(*                                                                         *)
(* Abstractions.  A calendar date is a day number; a timestamp is kept as   *)
(* its date.  A team name is the                                            *)
(* side it plays on ("home"/"away") of its game.  The resolution columns    *)
(* home_score, away_score, winning_pitcher, losing_pitcher and summary are  *)
(* always written together from one result and are kept as the single       *)
(* column `summary`, which holds the outcome the result reported.           *)
(* Odds are written with str() and come back from the sheet as numbers;     *)
(* they are kept as integers.                                               *)
(***************************************************************************)
EXTENDS Integers, Sequences, FiniteSets, TLC

VARIABLES
    store,                  \* rows of data/predictions.xlsx, in sheet order
    fileExists,             \* whether data/predictions.xlsx exists
    today,                  \* the calendar date of datetime.now()
    outcome,                \* what the results source reports for each game
    global_correct,         \* predict.py module globals
    global_wrong,
    global_biggest_upset,
    global_upset_diff,
    last,                   \* the last call: its inputs, what it returned and did
    scheduler_running,      \* main.py: `scheduler` is running
    active_model,           \* main.py: the global selected_model
    exit_code,              \* main.py: "none" while the script runs, then its exit code
    fired_on,               \* the last day the cron trigger fired
    pc,                     \* where the worker thread is in check_and_predict
    job_model,              \* check_and_predict: its argument selected_model
    job_df,                 \* the frame the span in flight of the job has read
    daily_jobs              \* check_and_predict: the jobs added to daily_scheduler

\* The state of the long-lived process around the store.
procvars == <<scheduler_running, active_model, exit_code, fired_on, pc, job_model,
              job_df, daily_jobs>>

vars == <<store, fileExists, today, outcome, global_correct, global_wrong,
          global_biggest_upset, global_upset_diff, last, scheduler_running,
          active_model, exit_code, fired_on, pc, job_model, job_df, daily_jobs>>

(***************************************************************************)
(* Bounds of the model.                                                    *)
(***************************************************************************)
MaxDay == 2
GamesPerDay == 2
MaxRows == 2
MaxCount == 2
MaxTally == 10

(***************************************************************************)
(* Program constants and the outside world.                                *)
(***************************************************************************)
MODELS == {"mlb3year", "mlb2023", "mets6year"}

\* main.py registers the recurring job with args=[selected_model].
selected_model == "mlb3year"

\* The day predict.py is imported by the long-lived process.  The default
\* argument `date: datetime = datetime.now()` is evaluated once, then.
ImportDay == 1

NULL == "null"

Games == 1..(MaxDay * GamesPerDay)
GameDay(g) == ((g - 1) \div GamesPerDay) + 1

\* The calendar date of a game's `datetime` (its start, a UTC timestamp): the
\* last fixture of a day is a night game, which starts after midnight UTC.
StartDate(g) == IF g % GamesPerDay = 0 THEN GameDay(g) + 1 ELSE GameDay(g)

\* get_todays_odds(): the games of the day, in feed order.
get_todays_odds(now) == [k \in 1..GamesPerDay |-> (now - 1) * GamesPerDay + k]

\* The market's odds of a game (American odds), as the feed reports them.
OddsTable == << [home |-> 150, away |-> -180],
                [home |-> -200, away |-> 120],
                [home |-> -110, away |-> 130] >>
OddsOf(g) == OddsTable[((g - 1) % 3) + 1]

Outcomes == {"Scheduled", "home", "away", "none"}

\* statsapi.schedule(game_id=id)[0]
Lookup(g) ==
    [ status |-> IF outcome[g] = "Scheduled" THEN "Scheduled" ELSE "Final",
      winning_team |-> IF outcome[g] \in {"home", "away"} THEN outcome[g] ELSE NULL,
      summary |-> outcome[g],
      datetime |-> StartDate(g),
      game_id |-> g ]

Abs(x) == IF x < 0 THEN -x ELSE x

NoUpset == << >>

\* update_row with a finished game that names no winner scored as a miss.
update_row_NoWinnerIsMiss(row, game, st) ==
    IF game.status # "Final"
    THEN [row |-> row, st |-> st]
    ELSE [row |-> [row EXCEPT !.prediction_accuracy =
                                  IF game.winning_team = row.predicted_winner
                                  THEN "1.0" ELSE "0.0",
                              !.summary = game.summary,
                              !.datetime = game.datetime,
                              !.game_id = game.game_id],
          st |-> IF game.winning_team = row.predicted_winner
                 THEN [st EXCEPT !.correct = st.correct + 1]
                 ELSE [st EXCEPT !.wrong = st.wrong + 1]]

(***************************************************************************)
(* update_row: one unresolved row against its looked-up result.  `st` is   *)
(* the value of the module globals; the result carries their new value.    *)
(***************************************************************************)
update_row(row, game, st) ==
    IF game.status # "Final"
    THEN [row |-> row, st |-> st]
    ELSE
      LET predicted_winner == row.predicted_winner
          actual_winner == game.winning_team
          prediction_accuracy ==
              IF actual_winner = predicted_winner THEN "1.0"
              ELSE IF actual_winner # NULL THEN "0.0" ELSE NULL
          losing_team == IF actual_winner = "away" THEN "home" ELSE "away"
          winner_odds == IF actual_winner = "home" THEN row.home_odds ELSE row.away_odds
          loser_odds == IF actual_winner = "home" THEN row.away_odds ELSE row.home_odds
          odds_diff == (Abs(winner_odds) - 100) + (Abs(loser_odds) - 100)
          newer == odds_diff > st.upset_diff /\ winner_odds > 100
          st2 == IF prediction_accuracy = "1.0"
                 THEN [ correct |-> st.correct + 1,
                        wrong |-> st.wrong,
                        upset_diff |-> IF newer THEN odds_diff ELSE st.upset_diff,
                        biggest_upset |->
                            IF newer
                            THEN << <<row.game_id, actual_winner>>, winner_odds,
                                    <<row.game_id, losing_team>>, loser_odds >>
                            ELSE st.biggest_upset ]
                 ELSE [st EXCEPT !.wrong = st.wrong + 1]
          updated_row == [row EXCEPT !.prediction_accuracy = prediction_accuracy,
                                     !.summary = game.summary,
                                     !.datetime = game.datetime,
                                     !.game_id = game.game_id]
      IN [row |-> updated_row, st |-> st2]

(***************************************************************************)
(* df[df["prediction_accuracy"].isnull()].apply(update_row, axis=1): the   *)
(* unresolved rows in sheet order, from row i on.  A lookup that raises    *)
(* (game_id in fail) ends the apply: the exception leaves the function.    *)
(* `upd` holds the rows update_row returned, at their index.               *)
(***************************************************************************)
RECURSIVE ApplyUpdateRow(_, _, _, _)
ApplyUpdateRow(upd, i, fail, st) ==
    IF i > Len(upd) THEN [upd |-> upd, st |-> st, raised |-> FALSE]
    ELSE IF upd[i].prediction_accuracy # NULL THEN ApplyUpdateRow(upd, i + 1, fail, st)
    ELSE IF upd[i].game_id \in fail THEN [upd |-> upd, st |-> st, raised |-> TRUE]
    ELSE LET u == update_row(upd[i], Lookup(upd[i].game_id), st)
         IN ApplyUpdateRow([upd EXCEPT ![i] = u.row], i + 1, fail, u.st)

\* The frame of the unresolved rows alone taken for the whole sheet.
DfUpdate_UnresolvedOnly(df, other) ==
    LET unresolved(i) == df[i].prediction_accuracy = NULL
        idx == SelectSeq([i \in 1..Len(df) |-> i], unresolved)
    IN [k \in 1..Len(idx) |-> other[idx[k]]]

\* df.update(other): a non-null cell of `other` overwrites the cell of df
\* (datetime and game_id are never null in a row or in a result).
Cell(old, new) == IF new = NULL THEN old ELSE new
DfUpdate(df, other) ==
    [i \in 1..Len(df) |->
        [df[i] EXCEPT !.prediction_accuracy =
                          Cell(df[i].prediction_accuracy, other[i].prediction_accuracy),
                      !.summary = Cell(df[i].summary, other[i].summary),
                      !.datetime = other[i].datetime,
                      !.game_id = other[i].game_id]]

(***************************************************************************)
(* str(int(100 * round(correct / (correct + wrong), 2))): the percentage of *)
(* the summary, in IEEE double arithmetic.  round(x, 2) is the double       *)
(* nearest to k/100, k the quotient in hundredths rounded half to even      *)
(* (for totals up to 20 the double quotient rounds as the exact one does).  *)
(* 100 times that double is below k for k = 29, 57 and 58 (0.29 * 100 is    *)
(* 28.999999999999996) and exactly k for every other k of 0..100; int()     *)
(* truncates.                                                               *)
(***************************************************************************)
Round2(correct, total) ==
    LET f == (100 * correct) \div total
        r == (100 * correct) % total
    IN IF 2 * r > total THEN f + 1
       ELSE IF 2 * r < total THEN f
       ELSE IF f % 2 = 0 THEN f ELSE f + 1

ProductBelow == {29, 57, 58}

percentage(correct, wrong) ==
    LET k == Round2(correct, correct + wrong)
    IN IF k \in ProductBelow THEN k - 1 ELSE k

UnresolvedIds(df) == {df[i].game_id : i \in {j \in 1..Len(df) : df[j].prediction_accuracy = NULL}}

\* The lookups that raise in one pass.  The first exception ends the pass, so at
\* most one lookup is seen to raise.
FailChoices(df) == {{}} \cup {{g} : g \in UnresolvedIds(df)}

Globals == [ correct |-> global_correct, wrong |-> global_wrong,
             upset_diff |-> global_upset_diff, biggest_upset |-> global_biggest_upset ]

SetGlobals(st) ==
    /\ global_correct' = st.correct
    /\ global_wrong' = st.wrong
    /\ global_upset_diff' = st.upset_diff
    /\ global_biggest_upset' = st.biggest_upset

\* The record of a call.
Call(op) == [ op |-> op, fail |-> {}, raised |-> FALSE, tweets |-> 0,
              summary |-> << >>, calls |-> 0, pick |-> << >>, not_running |-> FALSE,
              asked |-> NULL, counted |-> 0, ret |-> << >>, df |-> << >> ]

Init ==
    /\ store = << >>
    /\ fileExists = FALSE
    /\ today = ImportDay
    /\ outcome = [g \in Games |-> "Scheduled"]
    /\ global_correct = 0
    /\ global_wrong = 0
    /\ global_biggest_upset = NoUpset
    /\ global_upset_diff = 0
    /\ last = Call("start")
    /\ scheduler_running = TRUE
    /\ active_model = selected_model
    /\ exit_code = "none"
    /\ fired_on = 0
    /\ pc = "idle"
    /\ job_model = selected_model
    /\ job_df = << >>
    /\ daily_jobs = << >>

NextDay ==
    /\ today < MaxDay
    /\ today' = today + 1
    /\ last' = Call("day")
    /\ UNCHANGED <<store, fileExists, outcome, global_correct, global_wrong,
                   global_biggest_upset, global_upset_diff>>
    /\ UNCHANGED procvars

(***************************************************************************)
(* predict.load_unchecked_predictions_from_excel: one reconciliation pass  *)
(* of the long-lived process.  `fail` are the games whose lookup raises,   *)
(* `res` is whether gen_result_tweet returned a non-empty text.  How       *)
(* server/tweet.py ends (its return code is only printed) changes nothing. *)
(*                                                                         *)
(* When a summary is dispatched, line 141 rebinds file_name to the path of *)
(* server/tweet.py, and df.to_excel(file_name) at line 161 is handed that  *)
(* path: pandas has no writer for ".py" and raises ValueError, so          *)
(* data/predictions.xlsx is not rewritten.                                 *)
(***************************************************************************)
LoadPass(read) ==
    \E fail \in FailChoices(read) :
    \E a \in {ApplyUpdateRow(read, 1, fail, Globals)} :
    \E res \in (IF a.st.biggest_upset = NoUpset THEN {TRUE} ELSE BOOLEAN) :
      LET counted == (a.st.correct + a.st.wrong) > 0
          tweeted == counted /\ res
          scored == (a.st.correct + a.st.wrong) - (global_correct + global_wrong)
          df == DfUpdate(read, a.upd)
      IN
      /\ a.st.correct + a.st.wrong <= MaxCount
      /\ IF ~fileExists
         THEN \* FileNotFoundError: return None
              /\ last' = Call("load")
              /\ UNCHANGED <<store, global_correct, global_wrong,
                             global_biggest_upset, global_upset_diff>>
         ELSE IF a.raised
         THEN \* the exception of update_row leaves the function
              /\ SetGlobals(a.st)
              /\ last' = [Call("load") EXCEPT !.fail = fail, !.raised = TRUE, !.df = read,
                                              !.counted = scored]
              /\ UNCHANGED store
         ELSE /\ SetGlobals(a.st)
              /\ store' = IF tweeted THEN store ELSE df
              /\ last' = [Call("load") EXCEPT
                            !.raised = tweeted,
                            !.counted = scored,
                            !.tweets = IF tweeted THEN 1 ELSE 0,
                            !.summary = IF tweeted
                                        THEN <<a.st.correct, a.st.correct + a.st.wrong,
                                               percentage(a.st.correct, a.st.wrong)>>
                                        ELSE << >>,
                            !.df = df]
      /\ UNCHANGED <<fileExists, today, outcome>>

\* The pass as one step: the sheet is read and written back with no other
\* operation on the store in between.
load_unchecked_predictions_from_excel ==
    /\ LoadPass(store)
    /\ UNCHANGED procvars

(***************************************************************************)
(* generate_daily_predictions (both modules): `df` is the sheet as read    *)
(* (empty when the file is missing), `date` the target date, `now` the     *)
(* date of datetime.now(), `pick` what the model returned for each fixture *)
(* ("decline": no winner, or an exception).                                *)
(***************************************************************************)
NewRow(g, winner, model, now) ==
    [ game_id |-> g,
      datetime |-> StartDate(g),
      prediction_generation_time |-> now,
      predicted_winner |-> winner,
      model |-> model,
      home_odds |-> OddsOf(g).home,
      away_odds |-> OddsOf(g).away,
      prediction_accuracy |-> NULL,
      summary |-> NULL ]

Picks == [1..GamesPerDay -> {"home", "away", "decline"}]

\* mlb.predict_next_game("mlb2023", game["home_team"]): the model the call names
\* for a fixture, whatever `model` the function was given.
ModelAsked(model) == "mlb2023"

\* generate_daily_predictions in which a fixture the model declines ends the
\* loop over the fixtures.
generate_daily_predictions_DeclineAborts(df, date, now, pick, model) ==
    LET on_date(r) == r.datetime = date
        generated_on_date(r) == r.datetime = date /\ r.prediction_generation_time = date
        not_on_date(r) == r.datetime # date
        filtered_df == SelectSeq(df, generated_on_date)
        known == \E i \in 1..Len(df) : on_date(df[i])
        kept == IF known THEN SelectSeq(df, not_on_date) ELSE df
        all_games == get_todays_odds(now)
        reached == {k \in 1..Len(all_games) : \A j \in 1..k : pick[j] # "decline"}
        game_predictions == [k \in 1..Cardinality(reached) |->
                                NewRow(all_games[k], pick[k], model, now)]
    IN
    IF known /\ Len(filtered_df) > 0
    THEN [ret |-> filtered_df, written |-> FALSE, df |-> df, calls |-> 0, raised |-> FALSE,
          asked |-> NULL]
    ELSE IF game_predictions = << >>
    THEN [ret |-> << >>, written |-> FALSE, df |-> df,
          calls |-> Len(all_games), raised |-> TRUE, asked |-> ModelAsked(model)]
    ELSE [ret |-> game_predictions, written |-> TRUE, df |-> kept \o game_predictions,
          calls |-> Len(all_games), raised |-> FALSE, asked |-> ModelAsked(model)]

generate_daily_predictions(df, date, now, pick, model) ==
    LET on_date(r) == r.datetime = date
        generated_on_date(r) == r.datetime = date /\ r.prediction_generation_time = date
        not_on_date(r) == r.datetime # date
        filtered_df == SelectSeq(df, generated_on_date)
        known == \E i \in 1..Len(df) : on_date(df[i])
        kept == IF known THEN SelectSeq(df, not_on_date) ELSE df
        all_games == get_todays_odds(now)
        made == [k \in 1..Len(all_games) |-> NewRow(all_games[k], pick[k], model, now)]
        predicted(r) == r.predicted_winner # "decline"
        game_predictions == SelectSeq(made, predicted)
    IN
    IF known /\ Len(filtered_df) > 0
    THEN [ret |-> filtered_df, written |-> FALSE, df |-> df, calls |-> 0, raised |-> FALSE,
          asked |-> NULL]
    ELSE IF game_predictions = << >>
    THEN \* df_new[column_order] on a frame without columns: KeyError
         [ret |-> << >>, written |-> FALSE, df |-> df,
          calls |-> Len(all_games), raised |-> TRUE, asked |-> ModelAsked(model)]
    ELSE [ret |-> game_predictions, written |-> TRUE, df |-> kept \o game_predictions,
          calls |-> Len(all_games), raised |-> FALSE, asked |-> ModelAsked(model)]

\* What the model may return for the fixtures; it is not asked when the rows of
\* `date` are returned as they are.
GenInputs(df, date, now) ==
    IF generate_daily_predictions(df, date, now, [k \in 1..GamesPerDay |-> "decline"],
                                  selected_model).calls = 0
    THEN {[k \in 1..GamesPerDay |-> "decline"]}
    ELSE Picks

\* predict.generate_daily_predictions as check_and_predict calls it:
\* without a date, so with the default evaluated at import.
GenerateDaily ==
    \E pick \in GenInputs(store, ImportDay, today) :
    \E g \in {generate_daily_predictions(store, ImportDay, today, pick, selected_model)} :
      /\ Len(g.df) <= MaxRows
      /\ store' = g.df
      /\ fileExists' = (fileExists \/ g.written)
      /\ last' = [Call("generate") EXCEPT !.ret = g.ret, !.calls = g.calls,
                                          !.raised = g.raised, !.pick = pick,
                                          !.asked = g.asked]
      /\ UNCHANGED <<today, outcome, global_correct, global_wrong,
                     global_biggest_upset, global_upset_diff>>
      /\ UNCHANGED procvars

(***************************************************************************)
(* make_predictions.py, run as a script: main() in a new process, whose    *)
(* module globals start at 0 and whose default date is the day of the run. *)
(* main() reconciles (an exception of the pass is caught and printed),     *)
(* reads a model of MODELS at the prompt and generates.  `df` of the call  *)
(* record is the frame the pass wrote.                                     *)
(***************************************************************************)
FreshGlobals == [correct |-> 0, wrong |-> 0, upset_diff |-> 0, biggest_upset |-> NoUpset]

MpMain ==
    \E fail \in FailChoices(store), model \in MODELS :
    \E a \in {ApplyUpdateRow(store, 1, fail, FreshGlobals)} :
    \E df \in {IF fileExists /\ ~a.raised THEN DfUpdate(store, a.upd) ELSE store} :
    \E pick \in GenInputs(df, today, today) :
    \E g \in {generate_daily_predictions(df, today, today, pick, model)} :
      /\ Len(g.df) <= MaxRows
      /\ store' = g.df
      /\ fileExists' = (fileExists \/ g.written)
      /\ last' = [Call("mp_main") EXCEPT !.fail = fail, !.df = df, !.ret = g.ret,
                                         !.calls = g.calls, !.raised = g.raised,
                                         !.pick = pick, !.asked = g.asked,
                                         !.counted = a.st.correct + a.st.wrong]
      /\ UNCHANGED <<today, outcome, global_correct, global_wrong,
                     global_biggest_upset, global_upset_diff>>
      /\ UNCHANGED procvars

\* The results source: a game of a day that has come ends.
GameEnds ==
    \E g \in UnresolvedIds(store), o \in Outcomes \ {"Scheduled"} :
      /\ outcome[g] = "Scheduled"
      /\ GameDay(g) <= today
      /\ outcome' = [outcome EXCEPT ![g] = o]
      /\ last' = Call("result")
      /\ UNCHANGED <<store, fileExists, today, global_correct, global_wrong,
                     global_biggest_upset, global_upset_diff>>
      /\ UNCHANGED procvars

\* The functions of predict.py, called in any order as the days go by.
Next ==
    \/ NextDay
    \/ GameEnds
    \/ load_unchecked_predictions_from_excel
    \/ GenerateDaily

Spec == Init /\ [][Next]_vars

(***************************************************************************)
(* The percentage alone: the counters start at any value up to MaxTally,   *)
(* and the summary of lines 102-115 is computed from them.                  *)
(***************************************************************************)
PctInit ==
    /\ store = << >>
    /\ fileExists = FALSE
    /\ today = ImportDay
    /\ outcome = [g \in Games |-> "Scheduled"]
    /\ global_correct \in 0..MaxTally
    /\ global_wrong \in 0..MaxTally
    /\ global_biggest_upset = NoUpset
    /\ global_upset_diff = 0
    /\ last = Call("start")
    /\ scheduler_running = TRUE
    /\ active_model = selected_model
    /\ exit_code = "none"
    /\ fired_on = 0
    /\ pc = "idle"
    /\ job_model = selected_model
    /\ job_df = << >>
    /\ daily_jobs = << >>

ReportAccuracy ==
    /\ last.op = "start"
    /\ (global_correct + global_wrong) > 0
    /\ last' = [Call("report") EXCEPT
                  !.summary = <<global_correct, global_correct + global_wrong,
                                percentage(global_correct, global_wrong)>>]
    /\ UNCHANGED <<store, fileExists, today, outcome, global_correct, global_wrong,
                   global_biggest_upset, global_upset_diff>>
    /\ UNCHANGED procvars

PctNext == ReportAccuracy

PctSpec == PctInit /\ [][PctNext]_vars

\* Runs of make_predictions.py as the days go by.
ScriptNext ==
    \/ NextDay
    \/ GameEnds
    \/ MpMain

ScriptSpec == Init /\ [][ScriptNext]_vars

(***************************************************************************)
(* main.py: the long-lived process.  Its scheduler fires the cron job once *)
(* a day (one instance at a time); a worker thread then runs               *)
(* check_and_predict, whose steps are the actions below, while the main     *)
(* thread serves the interrupt menu (switch_model, shutdown).                *)
(***************************************************************************)
Alive == exit_code = "none" \/ pc # "idle"

\* check_and_predict with the exception of the pass leaving the job.
AfterLoad_Uncaught(raised) == IF raised THEN "idle" ELSE "gen"

\* check_and_predict, lines 291-294: the call of the pass is wrapped in
\* try / except Exception, so line 295 is reached however the pass ended.
AfterLoad(raised) == "gen"

\* The cron trigger fires: check_and_predict is called with the argument bound
\* when the job was added, and the pass reads the sheet (line 98).
CronFire ==
    /\ scheduler_running
    /\ pc = "idle"
    /\ fired_on < today
    /\ fired_on' = today
    /\ job_model' = selected_model
    /\ IF fileExists
       THEN pc' = "load" /\ job_df' = store
       ELSE pc' = AfterLoad(FALSE) /\ job_df' = << >>
    /\ daily_jobs' = << >>
    /\ last' = Call("fire")
    /\ UNCHANGED <<store, fileExists, today, outcome, global_correct, global_wrong,
                   global_biggest_upset, global_upset_diff, scheduler_running,
                   active_model, exit_code>>

\* The rest of the pass, on the frame it read: lines 99-162.
JobReconcile ==
    /\ pc = "load"
    /\ LoadPass(job_df)
    /\ pc' = AfterLoad(last'.raised)
    /\ job_df' = << >>
    /\ UNCHANGED <<scheduler_running, active_model, exit_code, fired_on, job_model,
                   daily_jobs>>

\* generate_daily_predictions reads the sheet (line 189).
JobGenRead ==
    /\ pc = "gen"
    /\ pc' = "gen_rw"
    /\ job_df' = store
    /\ last' = Call("gen_read")
    /\ UNCHANGED <<store, fileExists, today, outcome, global_correct, global_wrong,
                   global_biggest_upset, global_upset_diff, scheduler_running,
                   active_model, exit_code, fired_on, job_model, daily_jobs>>

\* The rest of generate_daily_predictions (lines 190-285) and
\* daily_scheduler.start(): each new record has been added as a date job whose
\* run_date is its `datetime` minus one hour; `late` are the jobs whose run_date
\* is more than the misfire grace time (1 s) in the past when they are processed.
\* A KeyError leaves check_and_predict: the job of the day has failed.
JobGenWrite ==
    /\ pc = "gen_rw"
    /\ \E pick \in GenInputs(job_df, ImportDay, today) :
       \E g \in {generate_daily_predictions(job_df, ImportDay, today, pick, job_model)} :
       \E late \in SUBSET (IF g.calls > 0 THEN 1..Len(g.ret) ELSE {}) :
         /\ Len(g.df) <= MaxRows
         /\ store' = IF g.written THEN g.df ELSE store
         /\ fileExists' = (fileExists \/ g.written)
         /\ daily_jobs' = IF g.calls > 0
                          THEN [k \in 1..Len(g.ret) |->
                                   [payload |-> g.ret[k], late |-> k \in late,
                                    state |-> "Scheduled"]]
                          ELSE << >>
         /\ pc' = IF g.raised THEN "idle" ELSE "wait"
         /\ last' = [Call("generate") EXCEPT !.ret = g.ret, !.calls = g.calls,
                                             !.raised = g.raised, !.pick = pick,
                                             !.asked = g.asked]
    /\ job_df' = << >>
    /\ UNCHANGED <<today, outcome, global_correct, global_wrong, global_biggest_upset,
                   global_upset_diff, scheduler_running, active_model, exit_code,
                   fired_on, job_model>>

\* daily_scheduler processes a due job and removes it.  The callback runs unless
\* the run time was missed.  Once main.py is exiting, daily_scheduler is still
\* running (shutdown() stops `scheduler` only); whether its executor still takes
\* the callback depends on how far the interpreter is in its exit.
OneShot ==
    /\ pc = "wait"
    /\ \E j \in 1..Len(daily_jobs) :
       \E ran \in (IF exit_code = "none" THEN {~daily_jobs[j].late}
                   ELSE {~daily_jobs[j].late, FALSE}) :
         /\ daily_jobs[j].state = "Scheduled"
         /\ daily_jobs' = [daily_jobs EXCEPT ![j].state = IF ran THEN "Fired" ELSE "Missed"]
    /\ last' = Call("oneshot")
    /\ UNCHANGED <<store, fileExists, today, outcome, global_correct, global_wrong,
                   global_biggest_upset, global_upset_diff, scheduler_running,
                   active_model, exit_code, fired_on, pc, job_model, job_df>>

\* check_and_predict, lines 307-317: no job is left, the loop ends.
JobDone ==
    /\ pc = "wait"
    /\ \A j \in 1..Len(daily_jobs) : daily_jobs[j].state # "Scheduled"
    /\ pc' = "idle"
    /\ daily_jobs' = << >>
    /\ last' = Call("done")
    /\ UNCHANGED <<store, fileExists, today, outcome, global_correct, global_wrong,
                   global_biggest_upset, global_upset_diff, scheduler_running,
                   active_model, exit_code, fired_on, job_model, job_df>>

\* main.switch_model: a name of MODELS is entered.
switch_model ==
    /\ Alive
    /\ \E new_model \in MODELS :
         /\ new_model # active_model
         /\ active_model' = new_model
    /\ last' = Call("switch")
    /\ UNCHANGED <<store, fileExists, today, outcome, global_correct, global_wrong,
                   global_biggest_upset, global_upset_diff, scheduler_running,
                   exit_code, fired_on, pc, job_model, job_df, daily_jobs>>

\* shutdown() with SchedulerNotRunningError leaving the function.
shutdown_NoCatch(running) ==
    [ running |-> FALSE, not_running |-> ~running, raised |-> ~running,
      exit_code |-> IF running THEN "0" ELSE "1" ]

\* main.shutdown: scheduler.shutdown(wait=False) raises
\* SchedulerNotRunningError when the scheduler is not running, which is caught;
\* then sys.exit(0).
shutdown(running) ==
    [ running |-> FALSE, not_running |-> ~running, raised |-> FALSE, exit_code |-> "0" ]

\* Choice 2 of the interrupt menu.  The script has ended once sys.exit(0) was
\* reached and no job is running; until then the menu can be called again.
OperatorShutdown ==
    /\ Alive
    /\ \E r \in {shutdown(scheduler_running)} :
         /\ scheduler_running' = r.running
         /\ exit_code' = r.exit_code
         /\ last' = [Call("shutdown") EXCEPT !.raised = r.raised,
                                             !.not_running = r.not_running]
    /\ UNCHANGED <<store, fileExists, today, outcome, global_correct, global_wrong,
                   global_biggest_upset, global_upset_diff, active_model, fired_on,
                   pc, job_model, job_df, daily_jobs>>

SchedNext ==
    \/ NextDay
    \/ GameEnds
    \/ CronFire
    \/ JobReconcile
    \/ JobGenRead
    \/ JobGenWrite
    \/ OneShot
    \/ JobDone
    \/ switch_model
    \/ OperatorShutdown

SchedSpec == Init /\ [][SchedNext]_vars

\* One day of the process, next to runs of make_predictions.py on the same
\* sheet (each run taken as one step).
WriterNext ==
    \/ GameEnds
    \/ CronFire
    \/ JobReconcile
    \/ JobGenRead
    \/ JobGenWrite
    \/ OneShot
    \/ JobDone
    \/ MpMain

WriterSpec == Init /\ [][WriterNext]_vars

(***************************************************************************)
(* Properties.                                                             *)
(***************************************************************************)
IsPass(c) == c.op = "load"
Unresolved(r) == r.prediction_accuracy = NULL
Final(r) == outcome[r.game_id] # "Scheduled"

\* The rows a pass brought to the given accuracy: unresolved before, and of that
\* accuracy in the frame the pass built.
Became(acc, before, call) ==
    {i \in 1..Len(before) : Unresolved(before[i]) /\ call.df[i].prediction_accuracy = acc}

\* C1: a second call of generate_daily_predictions for the same date, right
\* after a first one that returned records, leaves the store as it is, returns
\* the same records and does not ask the model.
C1_IdempotentGeneration ==
    [][ (last.op = "generate" /\ ~last.raised /\ last.ret # << >> /\ last'.op = "generate")
          => (store' = store /\ last'.ret = last.ret /\ last'.calls = 0) ]_vars

\* C2: a reconciliation pass leaves every row whose prediction_accuracy is
\* non-null as it is, in the frame it builds and in the store, and removes or
\* adds no row.
C2_MonotonicResolution ==
    [][ (last'.op \in {"load", "mp_main"} /\ fileExists) =>
          /\ Len(last'.df) = Len(store)
          /\ \A i \in 1..Len(store) :
                ~Unresolved(store[i]) => last'.df[i] = store[i]
          /\ IsPass(last') =>
                /\ Len(store') = Len(store)
                /\ \A i \in 1..Len(store) :
                      ~Unresolved(store[i]) => store'[i] = store[i] ]_vars

\* C2 witness: a pass of predict.py that counted a finished row has run over a
\* store that holds an already resolved row.
C2_Witness ==
    /\ IsPass(last) /\ last.tweets = 1
    /\ \E i, j \in 1..Len(store) :
          /\ ~Unresolved(store[i])
          /\ Unresolved(store[j]) /\ Final(store[j])

\* C3: no two rows of the store have the same game_id.
C3_UniqueGameId ==
    \A i, j \in 1..Len(store) : i # j => store[i].game_id # store[j].game_id

\* C4: in a pass in which the lookup of one row raises, every other unresolved
\* row whose game is Final is updated in the store by that pass, and the row
\* whose lookup raised stays as it was.
C4_PartialFailureIsolation ==
    [][ (IsPass(last') /\ last'.fail # {}) =>
          \A i \in 1..Len(store) :
             Unresolved(store[i]) =>
                IF store[i].game_id \in last'.fail
                THEN store'[i] = store[i]
                ELSE Final(store[i]) => store'[i].summary = outcome[store[i].game_id]
       ]_vars

\* C5: a pass in which no lookup raises leaves, in the store, every unresolved
\* row whose game is Final with its resolution fields filled.
C5_ReconciliationPersisted ==
    [][ (IsPass(last') /\ last'.fail = {} /\ fileExists) =>
          \A i \in 1..Len(store) :
             (Unresolved(store[i]) /\ Final(store[i])) =>
                store'[i].summary = outcome[store[i].game_id] ]_vars

\* C6: update_row returns a row whose game is not Final unchanged; for a Final
\* game prediction_accuracy is 1.0 exactly when the winner is the predicted one,
\* 0.0 exactly when there is another winner, null when there is none, and the
\* resolution fields are filled from the result.
C6_UpdateRowOutcome ==
    [][ (last'.op \in {"load", "mp_main"} /\ last'.fail = {} /\ fileExists) =>
          /\ Len(last'.df) = Len(store)
          /\ \A i \in 1..Len(store) :
                Unresolved(store[i]) =>
                   LET r == store[i]
                       u == last'.df[i]
                       o == outcome[r.game_id]
                   IN IF o = "Scheduled"
                      THEN u = r
                      ELSE /\ (u.prediction_accuracy = "1.0") <=> (o = r.predicted_winner)
                           /\ (u.prediction_accuracy = "0.0") <=>
                                 (o \in {"home", "away"} /\ o # r.predicted_winner)
                           /\ (u.prediction_accuracy = NULL) <=> (o = "none")
                           /\ u.summary = o ]_vars

\* C6 witness: a pass has resolved one row to 1.0, left a row whose game ended
\* without a winner at null with its resolution fields filled, or returned a
\* row whose game is not Final unchanged, next to a resolved one.
C6_Witness ==
    /\ IsPass(last) /\ last.fail = {} /\ Len(last.df) = 2
    /\ \E i, j \in 1..Len(store) :
          /\ store[i].summary = NULL /\ last.df[i].prediction_accuracy = "1.0"
          /\ store[j].summary = NULL
          /\ \/ last.df[j].summary = "none" /\ last.df[j].prediction_accuracy = NULL
             \/ outcome[store[j].game_id] = "Scheduled" /\ last.df[j] = store[j]

\* C7: in a pass in which no lookup raises, global_correct grows by the number
\* of rows that became 1.0 and global_wrong by the number of rows that became
\* 0.0 (so a row left at null grows neither).
C7_CounterAccounting ==
    [][ (IsPass(last') /\ last'.fail = {} /\ fileExists) =>
          /\ global_correct' - global_correct = Cardinality(Became("1.0", store, last'))
          /\ global_wrong' - global_wrong = Cardinality(Became("0.0", store, last')) ]_vars

\* C8: the number of correct predictions in the summary of a pass is the number
\* of rows that pass brought to 1.0.
C8_StatisticsPerPass ==
    [][ (IsPass(last') /\ last'.tweets > 0) =>
          last'.summary[1] = Cardinality(Became("1.0", store, last')) ]_vars

\* C9: a pass dispatches at most one summary, and none when no unresolved row
\* of the store has a Final game.
C9_SummaryDispatch ==
    [][ IsPass(last') =>
          /\ last'.tweets <= 1
          /\ (\A i \in 1..Len(store) : Unresolved(store[i]) => ~Final(store[i]))
                => last'.tweets = 0 ]_vars

\* The odds of the winner and of the loser of a resolved row, and its margin.
WinnerOdds(r) == IF r.summary = "home" THEN r.home_odds ELSE r.away_odds
LoserOdds(r) == IF r.summary = "home" THEN r.away_odds ELSE r.home_odds
Margin(r) == (Abs(WinnerOdds(r)) - 100) + (Abs(LoserOdds(r)) - 100)

\* C10: after a pass in which no lookup raises, global_biggest_upset is the row
\* of largest margin among the rows the pass brought to 1.0 whose winner had
\* odds above 100 (null when there is none), and global_upset_diff that margin.
C10_UpsetSelection ==
    [][ (IsPass(last') /\ last'.fail = {} /\ fileExists) =>
          LET wins == {i \in Became("1.0", store, last') : WinnerOdds(last'.df[i]) > 100}
          IN IF wins = {}
             THEN global_biggest_upset' = NoUpset
             ELSE \E i \in wins :
                    /\ \A j \in wins : Margin(last'.df[j]) <= Margin(last'.df[i])
                    /\ global_upset_diff' = Margin(last'.df[i])
                    /\ global_biggest_upset'[1] = <<last'.df[i].game_id, last'.df[i].summary>>
                    /\ global_biggest_upset'[2] = WinnerOdds(last'.df[i]) ]_vars

\* A load-mutate-save span of the job is in flight: the sheet is read, the
\* frame not yet written.
InSpan == pc \in {"load", "gen_rw"}

\* C11: in an invocation of check_and_predict the pass, once it has read the
\* sheet, is followed by the generation whether it returned or raised; the
\* generation reads the sheet only after the pass has ended, and reads the
\* store as it is then.
C11_ReconcileBeforeGenerate ==
    [][ /\ (pc = "load" /\ pc' # "load") => (IsPass(last') /\ pc' = "gen")
        /\ (pc # "gen_rw" /\ pc' = "gen_rw") => (pc = "gen" /\ job_df' = store) ]_vars

\* C11 witness: the pass of an invocation has raised and the generation of the
\* same invocation is next.
C11_Witness ==
    /\ IsPass(last) /\ last.raised
    /\ pc = "gen"

\* C12: no run of make_predictions.py works on the store while a span of the
\* job is in flight, and a span that writes the store writes over the store it
\* read (no update made in between is lost).
C12_SingleWriter ==
    [][ /\ last'.op = "mp_main" => ~InSpan
        /\ (InSpan /\ pc' # pc /\ store' # store) => job_df = store ]_vars

\* C13: every fire of the recurring job calls check_and_predict with the model
\* that is active (the one switch_model set last).
C13_ModelSwitch ==
    [][ fired_on' # fired_on => job_model' = active_model ]_vars

\* C14: once shutdown has been called the cron trigger does not fire and no
\* one-shot job that is still scheduled has its callback run; the call of
\* shutdown leaves the job that is executing where it is, with its frame.
C14_ShutdownCancellation ==
    [][ /\ exit_code # "none" =>
              /\ fired_on' = fired_on
              /\ \A j \in 1..Len(daily_jobs) :
                    (daily_jobs[j].state = "Scheduled" /\ j <= Len(daily_jobs'))
                       => daily_jobs'[j].state # "Fired"
        /\ last'.op = "shutdown" =>
              (pc' = pc /\ job_df' = job_df /\ store' = store /\ daily_jobs' = daily_jobs)
      ]_vars

\* C15: shutdown called when the scheduler is not running lets no error out
\* and ends as the first call did: scheduler stopped, exit code 0.
C15_IdempotentShutdown ==
    [][ last'.op = "shutdown" =>
          /\ ~last'.raised
          /\ exit_code' = "0"
          /\ ~scheduler_running'
          /\ ~scheduler_running => (last'.not_running /\ exit_code' = exit_code) ]_vars

\* C15 witness: shutdown has been called with the scheduler already stopped.
C15_Witness ==
    /\ last.op = "shutdown" /\ last.not_running
    /\ exit_code = "0" /\ ~scheduler_running

\* C16: a generation that made new records leaves one scheduled one-shot job
\* for each, with the record as payload; a job leaves Scheduled only by having
\* its callback run (also when its run time was already past when it was
\* added), and a job that has left Scheduled is not run again.
C16_OneShotLifecycle ==
    [][ /\ (last'.op = "generate" /\ last'.calls > 0 /\ ~last'.raised) =>
              /\ Len(daily_jobs') = Len(last'.ret)
              /\ \A k \in 1..Len(last'.ret) :
                    /\ daily_jobs'[k].payload = last'.ret[k]
                    /\ daily_jobs'[k].state = "Scheduled"
        /\ \A j \in 1..Len(daily_jobs) :
              /\ daily_jobs[j].state = "Scheduled" =>
                    /\ j <= Len(daily_jobs')
                    /\ daily_jobs'[j].state \in {"Scheduled", "Fired"}
              /\ (daily_jobs[j].state # "Scheduled" /\ j <= Len(daily_jobs')
                     /\ last'.op = "oneshot")
                    => daily_jobs'[j] = daily_jobs[j] ]_vars

IsGeneration(c) == c.op \in {"generate", "mp_main"}

\* C17: a generation call in which the model declines every fixture ends
\* without raising, and the next generation call for the same date fetches the
\* fixtures and asks the model again.
C17_DedupAfterEmptyAttempt ==
    [][ /\ (IsGeneration(last') /\ last'.calls > 0
              /\ \A k \in 1..Len(last'.pick) : last'.pick[k] = "decline")
            => ~last'.raised
        /\ (last.op = "generate" /\ last.calls > 0 /\ last.ret = << >>
              /\ last'.op = "generate")
            => last'.calls > 0 ]_vars

\* C18: a generation call that asks the model returns one record for each
\* fixture the model did not decline, in feed order; these records are the last
\* rows of the store after the call, with the resolution fields null, the rows
\* before them are rows of the frame the call read, and when every fixture is
\* declined the store is as before.
C18_DeclineIsolation ==
    [][ (IsGeneration(last') /\ last'.calls > 0) =>
          LET fixtures == get_todays_odds(today)
              frame == IF last'.op = "generate" THEN store ELSE last'.df
              answered(k) == last'.pick[k] # "decline"
              remaining == SelectSeq([k \in 1..Len(fixtures) |-> k], answered)
              n == Len(remaining)
              old == Len(store') - n
          IN /\ Len(last'.ret) = n
             /\ n = 0 => store' = frame
             /\ n > 0 =>
                   /\ old >= 0 /\ old <= Len(frame)
                   /\ \A i \in 1..old : \E j \in 1..Len(frame) : store'[i] = frame[j]
                   /\ \A k \in 1..n :
                         /\ store'[old + k] = last'.ret[k]
                         /\ last'.ret[k].game_id = fixtures[remaining[k]]
                         /\ last'.ret[k].predicted_winner = last'.pick[remaining[k]]
                         /\ last'.ret[k].prediction_accuracy = NULL
                         /\ last'.ret[k].summary = NULL ]_vars

\* C18 witness: a call of predict.generate_daily_predictions in which the model
\* declined one fixture of two has added the one record of the other.
C18_Witness ==
    /\ last.op = "generate" /\ last.calls = 2 /\ Len(last.ret) = 1
    /\ \E k \in 1..Len(last.pick) : last.pick[k] = "decline"
    /\ Len(store) > 0 /\ store[Len(store)] = last.ret[1]

\* C19: a call removes a row from the store only if it is a generation for the
\* date D of the row's event, no row of D was generated on D, and the row is
\* not resolved.
C19_NoRowLoss ==
    [][ \A i \in 1..Len(store) :
          LET D == IF last'.op = "mp_main" THEN today ELSE ImportDay
              resolved == \/ ~Unresolved(store[i])
                          \/ /\ last'.op = "mp_main" /\ Len(last'.df) = Len(store)
                             /\ ~Unresolved(last'.df[i])
              removed == \A j \in 1..Len(store') : store'[j].game_id # store[i].game_id
          IN removed =>
               /\ IsGeneration(last')
               /\ store[i].datetime = D
               /\ \A k \in 1..Len(store) :
                     ~(store[k].datetime = D /\ store[k].prediction_generation_time = D)
               /\ ~resolved ]_vars

\* C20: the percentage of a summary is the integer nearest to
\* 100 * correct / (correct + wrong): 7 correct and 3 wrong give 70.
C20_AccuracyArithmetic ==
    [][ (last'.op \in {"report", "load"} /\ last'.summary # << >>) =>
          LET correct == last'.summary[1]
              total == last'.summary[2]
              reported == last'.summary[3]
          IN 2 * Abs(reported * total - 100 * correct) <= total ]_vars

\* C21: a fire of the daily job generates for the date of the fire: the rows
\* of the sheet dated and generated that day, when there are any, are returned
\* and the model is not asked; otherwise the model is asked, and the sheet
\* written is the rows it read that are not dated that day followed by the new
\* records.
DatedToday(r) == r.datetime = today
DoneToday(r) == r.datetime = today /\ r.prediction_generation_time = today
NotDatedToday(r) == r.datetime # today
C21_TargetIsFireDate ==
    [][ (pc = "gen_rw" /\ pc' # "gen_rw") =>
          LET done == SelectSeq(job_df, DoneToday)
          IN /\ (last'.calls = 0) <=> (done # << >>)
             /\ (last'.calls = 0) => (last'.ret = done)
             /\ (last'.calls > 0 /\ ~last'.raised) =>
                   (store' = SelectSeq(job_df, NotDatedToday) \o last'.ret) ]_vars

\* C22: in a generation that asks the model, the model asked for the fixtures
\* is the one the generation was given, so that the `model` field of every
\* new record names the model that made its prediction.
C22_ModelHonoured ==
    [][ (IsGeneration(last') /\ last'.calls > 0) =>
          \A i \in 1..Len(last'.ret) : last'.ret[i].model = last'.asked ]_vars

\* The rows of `df` a pass looks up: update_row is applied to the unresolved
\* rows in sheet order, until a lookup raises.
Looked(df, fail) ==
    {i \in 1..Len(df) :
        /\ Unresolved(df[i])
        /\ \A j \in 1..(i - 1) : ~(Unresolved(df[j]) /\ df[j].game_id \in fail)}

\* A record of a finished game without a winner: its resolution fields are
\* filled and prediction_accuracy is null.
Indeterminate(r) == r.prediction_accuracy = NULL /\ r.summary # NULL

\* C23: a pass over a sheet does not look up a record that is indeterminate,
\* leaves it as it is, and counts no more rows than the sheet has unresolved
\* records that are not indeterminate.
C23_IndeterminateTerminal ==
    [][ (last'.op = "mp_main" /\ fileExists) =>
          /\ \A i \in 1..Len(store) :
                Indeterminate(store[i]) =>
                  (i \notin Looked(store, last'.fail) /\ last'.df[i] = store[i])
          /\ last'.counted <=
                Cardinality({i \in 1..Len(store) :
                                Unresolved(store[i]) /\ ~Indeterminate(store[i])}) ]_vars
====
